---------------------------- MODULE Spec2Model ----------------------------
(***************************************************************************)
(* Swift-Cart dashboard (src/app.py): the data engine get_data / get_rules *)
(* with the module-level try/except that loads them, and the Smart         *)
(* Placement Tool page that looks rules up for a selected product.         *)
(*                                                                         *)
(* Text (column headers, transaction ids, product names) is a tuple of     *)
(* one-character strings, so that lower(), strip(), `in`, join and         *)
(* str.contains are computed character by character.  The empty tuple is   *)
(* an empty CSV field, which pandas.read_csv reads as NaN.  A support, a   *)
(* confidence or a lift is a float64: the record [m, e] of its 53-bit      *)
(* mantissa, as the two limbs <<high 26 bits, low 27 bits>>, and the       *)
(* exponent of its leading bit.  min_support and min_threshold are kept as *)
(* the decimal literal <<numerator, denominator>> the call is written      *)
(* with.                                                                   *)
(***************************************************************************)
EXTENDS Integers, Sequences, FiniteSets

VARIABLES raw_columns, raw_rows, min_support, min_threshold, pc, error,
          df, basket_encoded, frequent_itemsets, rules, target, recs

vars == <<raw_columns, raw_rows, min_support, min_threshold, pc, error,
          df, basket_encoded, frequent_itemsets, rules, target, recs>>

(***************************** bounds **************************************)
\* rows of the CSV file in the pipeline specification
MaxRecords == 3
\* rows of the CSV file in the load specification
MaxLoadRecords == 2
\* rows of the CSV file in the schema specification
MaxSchemaRecords == 1
\* rows of the basket matrix in the miner specification
MaxTx == 3
\* rows of the basket matrix in the two-item specification
MaxRows == 20

(***************************** text ****************************************)
Alphabet == <<" ", ",", "0", "1", "2", "3", "4", "5", "6", "7", "8", "9", "A", "B", "C", "D", "E", "F", "G", "H", "I", "J", "K", "L", "M", "N", "O", "P", "Q", "R", "S", "T", "U", "V", "W", "X", "Y", "Z", "_", "a", "b", "c", "d", "e", "f", "g", "h", "i", "j", "k", "l", "m", "n", "o", "p", "q", "r", "s", "t", "u", "v", "w", "x", "y", "z">>
UpperCase == <<"A", "B", "C", "D", "E", "F", "G", "H", "I", "J", "K", "L", "M", "N", "O", "P", "Q", "R", "S", "T", "U", "V", "W", "X", "Y", "Z">>
LowerCase == <<"a", "b", "c", "d", "e", "f", "g", "h", "i", "j", "k", "l", "m", "n", "o", "p", "q", "r", "s", "t", "u", "v", "w", "x", "y", "z">>
Digits == <<"0", "1", "2", "3", "4", "5", "6", "7", "8", "9">>

\* the code point order of the characters in use
Code(c) == CHOOSE i \in 1..Len(Alphabet) : Alphabet[i] = c

\* str.lower(), one character
LowerChar(c) ==
    IF \E i \in 1..Len(UpperCase) : UpperCase[i] = c
    THEN LowerCase[CHOOSE i \in 1..Len(UpperCase) : UpperCase[i] = c]
    ELSE c

\* str.lower()
Lower(s) == [i \in 1..Len(s) |-> LowerChar(s[i])]

\* str.strip(): leading and trailing blanks removed
Strip(s) ==
    LET nb == {i \in 1..Len(s) : s[i] # " "}
    IN  IF nb = {} THEN <<>>
        ELSE LET lo == CHOOSE i \in nb : \A j \in nb : i <= j
                 hi == CHOOSE i \in nb : \A j \in nb : j <= i
             IN  SubSeq(s, lo, hi)

\* sub in s
In(sub, s) ==
    \E k \in 0..(Len(s) - Len(sub)) :
        \A i \in 1..Len(sub) : s[k + i] = sub[i]

\* s < t for str
StrLess(s, t) ==
    \E k \in 1..(Len(t)) :
        /\ k <= Len(s) + 1
        /\ \A i \in 1..(k - 1) : s[i] = t[i]
        /\ \/ k = Len(s) + 1
           \/ k <= Len(s) /\ Code(s[k]) < Code(t[k])

\* sorted(S) for a set of str
RECURSIVE Sorted(_)
Sorted(S) ==
    IF S = {} THEN <<>>
    ELSE LET m == CHOOSE x \in S : \A y \in S \ {x} : StrLess(x, y)
         IN  <<m>> \o Sorted(S \ {m})

Range(s) == {s[i] : i \in 1..Len(s)}

\* sep.join(parts)
RECURSIVE Join(_, _)
Join(sep, parts) ==
    IF Len(parts) = 0 THEN <<>>
    ELSE IF Len(parts) = 1 THEN parts[1]
    ELSE parts[1] \o sep \o Join(sep, Tail(parts))

(***************************** names ***************************************)
Tok_total == <<"t", "o", "t", "a", "l">>
Tok_value == <<"v", "a", "l", "u", "e">>
Tok_product == <<"p", "r", "o", "d", "u", "c", "t">>
Tok_name == <<"n", "a", "m", "e">>
Tok_transaction == <<"t", "r", "a", "n", "s", "a", "c", "t", "i", "o", "n">>
Tok_id == <<"i", "d">>
Tok_category == <<"c", "a", "t", "e", "g", "o", "r", "y">>
Tok_day == <<"d", "a", "y">>
Tok_week == <<"w", "e", "e", "k">>
Total_Basket_Value == <<"T", "o", "t", "a", "l", "_", "B", "a", "s", "k", "e", "t", "_", "V", "a", "l", "u", "e">>
Product_Name == <<"P", "r", "o", "d", "u", "c", "t", "_", "N", "a", "m", "e">>
Transaction_ID == <<"T", "r", "a", "n", "s", "a", "c", "t", "i", "o", "n", "_", "I", "D">>
Product_Category == <<"P", "r", "o", "d", "u", "c", "t", "_", "C", "a", "t", "e", "g", "o", "r", "y">>
Day_of_Week == <<"D", "a", "y", "_", "o", "f", "_", "W", "e", "e", "k">>
Quantity == <<"Q", "u", "a", "n", "t", "i", "t", "y">>
Sep == <<",", " ">>

\* headers a CSV file may carry
H_transaction_id == <<" ", "t", "r", "a", "n", "s", "a", "c", "t", "i", "o", "n", " ", "i", "d", " ">>
H_TXN == <<"T", "X", "N">>
H_TxnTotalValue == <<"T", "r", "a", "n", "s", "a", "c", "t", "i", "o", "n", " ", "I", "D", " ", "T", "o", "t", "a", "l", " ", "V", "a", "l", "u", "e">>
H_PRODUCT_NAME == <<"P", "R", "O", "D", "U", "C", "T", " ", "N", "A", "M", "E">>
H_Item == <<"I", "t", "e", "m">>
H_ProductCategoryName == <<"P", "r", "o", "d", "u", "c", "t", " ", "C", "a", "t", "e", "g", "o", "r", "y", " ", "N", "a", "m", "e">>
H_Qty == <<"Q", "t", "y">>
H_TotalValue == <<"T", "o", "t", "a", "l", " ", "V", "a", "l", "u", "e">>
H_category == <<"c", "a", "t", "e", "g", "o", "r", "y">>
H_Weekday == <<"W", "e", "e", "k", "d", "a", "y">>
H_Store == <<"S", "t", "o", "r", "e", " ">>

\* product names and transaction ids a CSV file may carry
Milk == <<"M", "i", "l", "k">>
Milkshake == <<"M", "i", "l", "k", "s", "h", "a", "k", "e">>
Bread == <<"B", "r", "e", "a", "d">>
ItemNames == {Bread, Milk, Milkshake}
TxnName(i) == <<"T", Digits[(i \div 10) + 1], Digits[(i % 10) + 1]>>
NaN == <<>>
Other == <<"x">>

(***************************** float64 *************************************)
\* a 53-bit mantissa is the pair <<hi, lo>> of value hi * LimbBase + lo
LimbBase == 2^27
LimbGeq(x, y) == x[1] > y[1] \/ (x[1] = y[1] /\ x[2] >= y[2])
LimbDouble(x) == <<2 * x[1] + ((2 * x[2]) \div LimbBase), (2 * x[2]) % LimbBase>>
LimbSub(x, y) ==
    IF x[2] >= y[2] THEN <<x[1] - y[1], x[2] - y[2]>>
    ELSE <<x[1] - y[1] - 1, x[2] + LimbBase - y[2]>>
LimbInc(x) == IF x[2] + 1 = LimbBase THEN <<x[1] + 1, 0>> ELSE <<x[1], x[2] + 1>>

\* the float64 of value (m[1] * LimbBase + m[2]) * 2^(e - 52), its leading
\* bit set; 0.0
Zero == [m |-> <<0, 0>>, e |-> 0]

RECURSIVE Log2(_)
Log2(k) == IF k < 2 THEN 0 ELSE 1 + Log2(k \div 2)

\* float(k) of an int 0 <= k < 2^26, exact
FromInt(k) == IF k = 0 THEN Zero ELSE [m |-> <<k * 2^(25 - Log2(k)), 0>>, e |-> Log2(k)]

\* the next k <= 27 bits of the quotient r / den, r < den, and the
\* remainder left: <<bits, remainder>>; the halves are taken in turn, and
\* no bit is set once nothing remains
RECURSIVE DivBits(_, _, _)
DivBits(r, den, k) ==
    IF r = <<0, 0>> THEN <<0, r>>
    ELSE IF k = 1
    THEN LET r2 == LimbDouble(r)
         IN  IF LimbGeq(r2, den) THEN <<1, LimbSub(r2, den)>> ELSE <<0, r2>>
    ELSE LET kl == k - (k \div 2)
         IN  CHOOSE d \in UNION {{<<a[1] * 2^kl + b[1], b[2]>> :
                                     b \in {DivBits(a[2], den, kl)}} :
                                 a \in {DivBits(r, den, k \div 2)}} : TRUE

\* round to nearest, ties to even: the quotient mantissa q with remainder r
RoundQuotient(q, r, den, e) ==
    LET r2 == LimbDouble(r)
        up == (r2 # den /\ LimbGeq(r2, den)) \/ (r2 = den /\ q[2] % 2 = 1)
        m == IF up THEN LimbInc(q) ELSE q
    IN  IF m = <<2^26, 0>> THEN [m |-> <<2^25, 0>>, e |-> e + 1] ELSE [m |-> m, e |-> e]

\* x / y of two float64, y not 0.0 (a divisor is a row count or the support
\* of a frequent itemset): the quotient of the mantissas bit by bit, the
\* leading bit first, correctly rounded
FDiv(x, y) ==
    IF x.m = <<0, 0>> THEN Zero
    ELSE LET lt == ~LimbGeq(x.m, y.m)
             num == IF lt THEN LimbDouble(x.m) ELSE x.m
             e == x.e - y.e - (IF lt THEN 1 ELSE 0)
         IN  CHOOSE f \in UNION {{RoundQuotient(<<2^25 + hi[1], lo[1]>>, lo[2], y.m, e) :
                                     lo \in {DivBits(hi[2], y.m, 27)}} :
                                 hi \in {DivBits(LimbSub(num, y.m), y.m, 25)}} : TRUE

\* x >= y and x > y of two float64 that are not negative
FGeq(x, y) ==
    IF y.m = <<0, 0>> THEN TRUE
    ELSE IF x.m = <<0, 0>> THEN FALSE
    ELSE x.e > y.e \/ (x.e = y.e /\ LimbGeq(x.m, y.m))
FGt(x, y) == ~FGeq(y, x)

\* the float64 of a decimal literal of value p[1] / p[2]: the nearest one
Literal(p) == FDiv(FromInt(p[1]), FromInt(p[2]))

(***************************** get_data ************************************)
\* a faulty variant of Rename: the category rule tried first
RenameWrongOrder(col) ==
    LET c_clean == Lower(Strip(col))
    IN  IF In(Tok_category, c_clean) THEN Product_Category
        ELSE IF In(Tok_total, c_clean) /\ In(Tok_value, c_clean) THEN Total_Basket_Value
        ELSE IF In(Tok_product, c_clean) /\ In(Tok_name, c_clean) THEN Product_Name
        ELSE IF In(Tok_transaction, c_clean) /\ In(Tok_id, c_clean) THEN Transaction_ID
        ELSE IF In(Tok_day, c_clean) /\ In(Tok_week, c_clean) THEN Day_of_Week
        ELSE col

\* the if / elif chain of get_data: the new name of column col
Rename(col) ==
    LET c_clean == Lower(Strip(col))
    IN  IF In(Tok_total, c_clean) /\ In(Tok_value, c_clean) THEN Total_Basket_Value
        ELSE IF In(Tok_product, c_clean) /\ In(Tok_name, c_clean) THEN Product_Name
        ELSE IF In(Tok_transaction, c_clean) /\ In(Tok_id, c_clean) THEN Transaction_ID
        ELSE IF In(Tok_category, c_clean) THEN Product_Category
        ELSE IF In(Tok_day, c_clean) /\ In(Tok_week, c_clean) THEN Day_of_Week
        ELSE col

\* df.rename(columns=new_names)
RenameColumns(columns) == [i \in 1..Len(columns) |-> Rename(columns[i])]

\* the position of the column labelled name
ColumnOf(columns, name) == CHOOSE i \in 1..Len(columns) : columns[i] = name

\* a faulty variant of DropNa: no row dropped
DropNaKeepAll(columns, rows) == rows

\* df.dropna(subset=['Transaction_ID', 'Product_Name']): the rows kept
DropNa(columns, rows) ==
    LET t == ColumnOf(columns, Transaction_ID)
        p == ColumnOf(columns, Product_Name)
    IN  SelectSeq(rows, LAMBDA r : r[t] # NaN /\ r[p] # NaN)

RECURSIVE SumSeq(_)
SumSeq(s) == IF s = <<>> THEN 0 ELSE Head(s) + SumSeq(Tail(s))

\* groupby(['Transaction_ID', 'Product_Name'])['Quantity'].sum() at one key
GroupSum(columns, rows, tid, item) ==
    LET t == ColumnOf(columns, Transaction_ID)
        p == ColumnOf(columns, Product_Name)
        q == ColumnOf(columns, Quantity)
        grp == SelectSeq(rows, LAMBDA r : r[t] = tid /\ r[p] = item)
    IN  SumSeq([i \in 1..Len(grp) |-> grp[i][q]])

\* the keys of the groupby
HasGroup(columns, rows, tid, item) ==
    LET t == ColumnOf(columns, Transaction_ID)
        p == ColumnOf(columns, Product_Name)
    IN  \E i \in 1..Len(rows) : rows[i][t] = tid /\ rows[i][p] = item

\* a faulty variant of Encode: x >= 0
EncodeNonNegative(x) == IF x >= 0 THEN 1 ELSE 0

\* the lambda of applymap
Encode(x) == IF x > 0 THEN 1 ELSE 0

\* .sum().unstack().reset_index().fillna(0).set_index('Transaction_ID'),
\* then applymap: rows and columns in sorted order, a key with no group 0
Basket(columns, rows) ==
    LET t == ColumnOf(columns, Transaction_ID)
        p == ColumnOf(columns, Product_Name)
        idx == Sorted({rows[i][t] : i \in 1..Len(rows)})
        cols == Sorted({rows[i][p] : i \in 1..Len(rows)})
    IN  [index |-> idx,
         columns |-> cols,
         values |-> [r \in 1..Len(idx) |-> [c \in 1..Len(cols) |->
                       IF HasGroup(columns, rows, idx[r], cols[c])
                       THEN Encode(GroupSum(columns, rows, idx[r], cols[c]))
                       ELSE Encode(0)]]]

EmptyFrame == [columns |-> <<>>, rows |-> <<>>]
EmptyBasket == [index |-> <<>>, columns |-> <<>>, values |-> <<>>]

\* the exception get_data raises on these columns ("" when it returns): a
\* missing key column raises KeyError in dropna, a missing Quantity column
\* raises KeyError in the groupby selection
GetDataError(columns) ==
    IF Transaction_ID \notin Range(columns) \/ Product_Name \notin Range(columns)
    THEN "KeyError: dropna subset"
    ELSE IF Quantity \notin Range(columns)
    THEN "KeyError: Column not found: Quantity"
    ELSE ""

\* df_clean of get_data
CleanFrame(raw_cols, rows) ==
    LET columns == RenameColumns(raw_cols)
    IN  [columns |-> columns, rows |-> DropNa(columns, rows)]

\* basket_encoded of get_data
BasketOf(raw_cols, rows) ==
    LET clean == CleanFrame(raw_cols, rows)
    IN  Basket(clean.columns, clean.rows)

\* get_data as called by the module-level try; the except clause reports
\* the error and stops the script
GetData ==
    /\ pc = "start"
    /\ LET e == GetDataError(RenameColumns(raw_columns))
       IN  IF e # ""
           THEN /\ pc' = "error"
                /\ error' = e
                /\ UNCHANGED <<df, basket_encoded>>
           ELSE /\ pc' = "data"
                /\ error' = error
                /\ df' = CleanFrame(raw_columns, raw_rows)
                /\ basket_encoded' = BasketOf(raw_columns, raw_rows)
    /\ UNCHANGED <<raw_columns, raw_rows, min_support, min_threshold,
                   frequent_itemsets, rules, target, recs>>

(***************************** apriori *************************************)
\* a faulty variant of SupportCount: rows holding some column of comb
SupportCountAny(X, comb) ==
    Cardinality({r \in 1..Len(X) : \E j \in 1..Len(comb) : X[r][comb[j]] = 1})

\* rows of X holding every column of the combination comb (np.all over the
\* selected columns, summed over the rows)
SupportCount(X, comb) ==
    Cardinality({r \in 1..Len(X) : \A j \in 1..Len(comb) : X[r][comb[j]] = 1})

\* _support: the count over the number of rows, one float64 division
Support(X, comb) == FDiv(FromInt(SupportCount(X, comb)), FromInt(Len(X)))

\* a faulty variant of IsFrequent: support > min_support
StrictlyFrequent(support, ms) == FGt(support, ms)

\* the mask support >= min_support
IsFrequent(support, ms) == FGeq(support, ms)

\* generate_new_combinations: every combination of the previous level
\* extended by each item of that level greater than its last item
GenerateNewCombinations(old_combinations) ==
    LET items_types_in_previous_step ==
            UNION {Range(c) : c \in old_combinations}
    IN  UNION {{Append(c, j) : j \in {i \in items_types_in_previous_step :
                                         i > c[Len(c)]}} :
               c \in old_combinations}

\* the combinations of combin that the mask keeps, each with its support
Kept(X, ms, combin) ==
    {s \in {[itemset |-> c, support |-> Support(X, c)] : c \in combin} :
        IsFrequent(s.support, ms)}

\* the while loop of apriori: the combinations kept at the levels after prev
RECURSIVE AprioriLevels(_, _, _)
AprioriLevels(X, ms, prev) ==
    LET combin == GenerateNewCombinations({s.itemset : s \in prev})
    IN  IF combin = {} THEN {}
        ELSE LET kept == Kept(X, ms, combin)
             IN  IF kept = {} THEN {}
                 ELSE kept \cup AprioriLevels(X, ms, kept)

\* apriori(basket, min_support, use_colnames=True): one row per frequent
\* combination, its support and its items by column name
Apriori(basket, ms) ==
    LET X == basket.values
        level1 == Kept(X, ms, {<<i>> : i \in 1..Len(basket.columns)})
        all == level1 \cup AprioriLevels(X, ms, level1)
    IN  {[support |-> s.support,
          itemsets |-> {basket.columns[s.itemset[j]] : j \in 1..Len(s.itemset)}] :
         s \in all}

(***************************** association_rules ***************************)
\* the support column looked up by itemset (frequent_items_dict)
SupportOf(fi, s) == (CHOOSE f \in fi : f.itemsets = s).support

HasItemset(fi, s) == \E f \in fi : f.itemsets = s

\* the metrics of mlxtend for one rule, each a float64 division
Confidence(sAC, sA, sC) == FDiv(sAC, sA)

\* a faulty variant of Lift: confidence over the antecedent's support
LiftByAntecedent(sAC, sA, sC) == FDiv(Confidence(sAC, sA, sC), sA)

Lift(sAC, sA, sC) == FDiv(Confidence(sAC, sA, sC), sC)

\* score >= min_threshold
ScoreMeets(score, min_thr) == FGeq(score, min_thr)

\* the antecedent / consequent splits of the frequent itemsets: every
\* combination of 1 .. len(k) - 1 items of k against the rest of k
Splits(fi) ==
    UNION {{<<a, f.itemsets \ a>> : a \in (SUBSET f.itemsets) \ {{}, f.itemsets}} :
           f \in fi}

\* list(x) of a frozenset x under the iteration order `order`
ListOf(x, order) == SelectSeq(order, LAMBDA i : i \in x)

\* the rows of the rules frame, with the two joined display strings
Rules(fi, min_thr, order) ==
    LET Row(a, c) ==
            LET sAC == SupportOf(fi, a \cup c)
                sA == SupportOf(fi, a)
                sC == SupportOf(fi, c)
            IN  [antecedents |-> a,
                 consequents |-> c,
                 antecedent_support |-> sA,
                 consequent_support |-> sC,
                 support |-> sAC,
                 confidence |-> Confidence(sAC, sA, sC),
                 lift |-> Lift(sAC, sA, sC),
                 antecedents_str |-> Join(Sep, ListOf(a, order)),
                 consequents_str |-> Join(Sep, ListOf(c, order))]
    IN  {row \in {Row(s[1], s[2]) : s \in Splits(fi)} :
            ScoreMeets(row.lift, min_thr)}

\* the orders in which the items of a run may be iterated
Permutations(S) ==
    {s \in [1..Cardinality(S) -> S] : \A i, j \in 1..Cardinality(S) : s[i] = s[j] => i = j}

\* get_rules as called by the module-level try, the two thresholds read as
\* float64: association_rules raises ValueError on an empty frame of
\* frequent itemsets and KeyError when the support of an antecedent or a
\* consequent is not in the frame
GetRules ==
    /\ pc = "data"
    /\ \E fi \in {Apriori(basket_encoded, Literal(min_support))},
          thr \in {Literal(min_threshold)} :
           /\ frequent_itemsets' = fi
           /\ IF fi = {}
              THEN /\ pc' = "error"
                   /\ error' = "ValueError: frequent itemsets is empty"
                   /\ rules' = rules
              ELSE IF \E s \in Splits(fi) : ~HasItemset(fi, s[1]) \/ ~HasItemset(fi, s[2])
              THEN /\ pc' = "error"
                   /\ error' = "KeyError: missing antecedent or consequent"
                   /\ rules' = rules
              ELSE /\ pc' = "loaded"
                   /\ error' = error
                   /\ \E order \in Permutations(UNION {f.itemsets : f \in fi}) :
                         rules' = Rules(fi, thr, order)
    /\ UNCHANGED <<raw_columns, raw_rows, min_support, min_threshold,
                   df, basket_encoded, target, recs>>

(***************************** Smart Placement Tool ************************)
\* sorted(df['Product_Name'].unique())
ProductList(frame) ==
    LET p == ColumnOf(frame.columns, Product_Name)
    IN  Sorted({frame.rows[i][p] : i \in 1..Len(frame.rows)})

\* rules['antecedents_str'].str.contains(target): the pattern of a name
\* without regular-expression metacharacters matches where it occurs
StrContains(s, pat) == In(pat, s)

\* .sort_values('lift', ascending=False).head(n): any n rows no row left
\* out beats
HeadRows(n, rows) ==
    {t \in SUBSET rows :
        /\ Cardinality(t) = (IF Cardinality(rows) < n THEN Cardinality(rows) ELSE n)
        /\ \A a \in t, b \in rows \ t : ~FGt(b.lift, a.lift)}

TopN == 3

\* the page: the user selects a product of the list, the page shows the
\* three matching rules of highest lift
SmartPlacement ==
    /\ pc \in {"loaded", "page"}
    /\ \E tgt \in Range(ProductList(df)) :
          /\ target' = tgt
          /\ recs' \in HeadRows(TopN, {r \in rules : StrContains(r.antecedents_str, tgt)})
    /\ pc' = "page"
    /\ UNCHANGED <<raw_columns, raw_rows, min_support, min_threshold, error,
                   df, basket_encoded, frequent_itemsets, rules>>

(***************************** specifications ******************************)
Quantities == {0, 1}
T1 == TxnName(1)
T2 == TxnName(2)
BoundedSeq(S, n) == UNION {[1..k -> S] : k \in 0..n}
CsvRows == ({NaN, T1, T2}) \X ({NaN} \cup ItemNames) \X Quantities

Idle ==
    /\ pc = "start" /\ error = "" /\ df = EmptyFrame
    /\ basket_encoded = EmptyBasket /\ frequent_itemsets = {} /\ rules = {}
    /\ target = NaN /\ recs = {}

\* the deployed pipeline and page on a CSV file with the canonical headers
Init ==
    /\ raw_columns = <<Transaction_ID, Product_Name, Quantity>>
    /\ raw_rows \in BoundedSeq(CsvRows, MaxRecords)
    /\ min_support = <<1, 100>>
    /\ min_threshold = <<1, 1>>
    /\ Idle

Next == GetData \/ GetRules \/ SmartPlacement

Spec == Init /\ [][Next]_vars

\* the module-level load alone, on a CSV file with the canonical headers
InitLoad ==
    /\ raw_columns = <<Transaction_ID, Product_Name, Quantity>>
    /\ raw_rows \in BoundedSeq(CsvRows, MaxLoadRecords)
    /\ min_support = <<1, 100>>
    /\ min_threshold = <<1, 1>>
    /\ Idle

NextLoad == GetData \/ GetRules

SpecLoad == InitLoad /\ [][NextLoad]_vars

\* the deployed pipeline and page on CSV files of varied headers
InitSchema ==
    /\ raw_columns \in {H_transaction_id, Transaction_ID, H_TXN, H_TxnTotalValue}
                       \X {H_PRODUCT_NAME, Product_Name, H_Item, H_ProductCategoryName}
                       \X {Quantity, H_Qty}
                       \X {H_TotalValue, H_category, H_Weekday, H_Store, H_TxnTotalValue}
    /\ raw_rows \in BoundedSeq({NaN, T1} \X {NaN, Milk} \X {1} \X {Other},
                                MaxSchemaRecords)
    /\ min_support = <<1, 100>>
    /\ min_threshold = <<1, 1>>
    /\ Idle

SpecSchema == InitSchema /\ [][Next]_vars

\* get_rules on any basket matrix, under any thresholds
MinSupports == {<<1, 100>>, <<1, 2>>, <<2, 3>>, <<1, 1>>}
MinThresholds == {<<1, 2>>, <<1, 1>>}

InitMiner ==
    /\ raw_columns = <<Transaction_ID, Product_Name, Quantity>>
    /\ raw_rows = <<>>
    /\ min_support \in MinSupports
    /\ min_threshold \in MinThresholds
    /\ pc = "data" /\ error = "" /\ df = EmptyFrame
    /\ frequent_itemsets = {} /\ rules = {} /\ target = NaN /\ recs = {}
    /\ \E n \in 0..MaxTx, cols \in SUBSET ItemNames :
          /\ n = 0 => cols = {}
          /\ \E X \in [1..n -> [1..Cardinality(cols) -> {0, 1}]] :
                basket_encoded = [index |-> [i \in 1..n |-> TxnName(i)],
                                  columns |-> Sorted(cols),
                                  values |-> X]

NextMiner == GetRules

SpecMiner == InitMiner /\ [][NextMiner]_vars

\* the basket matrix of `both` rows holding the two items, `first` and
\* `second` rows holding one, `neither` rows holding none
CountRows(both, first, second, neither) ==
    [i \in 1..(both + first + second + neither) |->
        IF i <= both THEN <<1, 1>>
        ELSE IF i <= both + first THEN <<1, 0>>
        ELSE IF i <= both + first + second THEN <<0, 1>>
        ELSE <<0, 0>>]

\* get_rules under the deployed thresholds on any basket matrix of two items
InitCounts ==
    /\ raw_columns = <<Transaction_ID, Product_Name, Quantity>>
    /\ raw_rows = <<>>
    /\ min_support = <<1, 100>>
    /\ min_threshold = <<1, 1>>
    /\ pc = "data" /\ error = "" /\ df = EmptyFrame
    /\ frequent_itemsets = {} /\ rules = {} /\ target = NaN /\ recs = {}
    /\ \E both, first, second, neither \in 0..MaxRows :
          /\ both + first + second + neither \in 1..MaxRows
          /\ basket_encoded =
                [index |-> [i \in 1..(both + first + second + neither) |-> TxnName(i)],
                 columns |-> <<Bread, Milk>>,
                 values |-> CountRows(both, first, second, neither)]

NextCounts == GetRules

SpecCounts == InitCounts /\ [][NextCounts]_vars

(***************************** properties **********************************)
\* get_rules has run, whether it returned or raised
MinerRan == pc \in {"loaded", "error", "page"}

\* get_data has returned
DataLoaded == pc # "start" /\ df.columns # <<>>

\* the rows of basket b that hold every item of S, read by column name
RowsHolding(b, S) ==
    {r \in 1..Len(b.index) :
        \A c \in 1..Len(b.columns) : b.columns[c] \in S => b.values[r][c] = 1}

\* the itemsets over the columns of b whose support is at least ms
FrequentSets(b, ms) ==
    {S \in (SUBSET Range(b.columns)) \ {{}} :
        Cardinality(RowsHolding(b, S)) * ms[2] >= ms[1] * Len(b.index)}

\* C1: the miner returns exactly the non-empty itemsets whose support
\* (rows holding all its items over all rows) is at least min_support,
\* singletons included, each with that support: the float64 quotient of the
\* two counts.
C1_MinerReturnsExactlyFrequent ==
    MinerRan =>
        frequent_itemsets =
            {[support |-> FDiv(FromInt(Cardinality(RowsHolding(basket_encoded, S))),
                               FromInt(Len(basket_encoded.index))),
              itemsets |-> S] : S \in FrequentSets(basket_encoded, min_support)}

\* 1.0
One == [m |-> <<2^25, 0>>, e |-> 0]

\* 0.6666666666666666, the float64 of 2 / 3
TwoThirds == [m |-> <<44739242, 89478485>>, e |-> -1]

\* Scenario 1: T1 = {bread, milk}, T2 = {bread, milk}, T3 = {bread} at
\* min_support 0.5 mined to {bread}: 1, {milk}: 2/3, {bread, milk}: 2/3
C1_Scenario1 ==
    /\ pc = "loaded"
    /\ min_support = <<1, 2>>
    /\ basket_encoded.columns = <<Bread, Milk>>
    /\ basket_encoded.values = <<(<<1, 1>>), (<<1, 1>>), (<<1, 0>>)>>
    /\ frequent_itemsets = {[support |-> One, itemsets |-> {Bread}],
                            [support |-> TwoThirds, itemsets |-> {Milk}],
                            [support |-> TwoThirds, itemsets |-> {Bread, Milk}]}

\* the splits (A, F \ A) of the frequent itemsets F of b, A a non-empty
\* proper subset of F, whose lift count(F) * n / (count(A) * count(F \ A))
\* is at least thr
ExpectedSplits(b, ms, thr) ==
    LET n == Len(b.index)
        Cnt(S) == Cardinality(RowsHolding(b, S))
    IN  {p \in (SUBSET Range(b.columns)) \X (SUBSET Range(b.columns)) :
            /\ p[1] # {} /\ p[2] # {} /\ p[1] \cap p[2] = {}
            /\ (p[1] \cup p[2]) \in FrequentSets(b, ms)
            /\ Cnt(p[1] \cup p[2]) * n * thr[2] >= thr[1] * Cnt(p[1]) * Cnt(p[2])}

\* C2: whenever some itemset is frequent the rule generator returns, and its
\* rules are exactly the splits A -> F \ A of the frequent itemsets F with
\* lift >= min_lift, the bound included, one row per split.
C2_RulesExactlySplitsMeetingLift ==
    (MinerRan /\ frequent_itemsets # {}) =>
        /\ pc # "error"
        /\ {<<r.antecedents, r.consequents>> : r \in rules}
              = ExpectedSplits(basket_encoded, min_support, min_threshold)
        /\ Cardinality(rules)
              = Cardinality(ExpectedSplits(basket_encoded, min_support, min_threshold))

\* the sum of Quantity over the rows of frame for transaction t and item i
RECURSIVE QuantityOver(_, _)
QuantityOver(frame, I) ==
    IF I = {} THEN 0
    ELSE LET k == CHOOSE x \in I : TRUE
         IN  frame.rows[k][ColumnOf(frame.columns, Quantity)]
               + QuantityOver(frame, I \ {k})

QuantityTotal(frame, t, i) ==
    QuantityOver(frame, {k \in 1..Len(frame.rows) :
        /\ frame.rows[k][ColumnOf(frame.columns, Transaction_ID)] = t
        /\ frame.rows[k][ColumnOf(frame.columns, Product_Name)] = i})

\* C3: the basket matrix has one row per distinct transaction id and one
\* column per distinct item name of the cleaned records, every cell is
\* present, and cell (t, i) is 1 exactly when the quantities of the cleaned
\* records of t and i sum to more than 0, and 0 otherwise.
C3_BasketCellIsPresence ==
    DataLoaded =>
        LET b == basket_encoded
            tids == {df.rows[k][ColumnOf(df.columns, Transaction_ID)] : k \in 1..Len(df.rows)}
            items == {df.rows[k][ColumnOf(df.columns, Product_Name)] : k \in 1..Len(df.rows)}
        IN  /\ Range(b.index) = tids /\ Len(b.index) = Cardinality(tids)
            /\ Range(b.columns) = items /\ Len(b.columns) = Cardinality(items)
            /\ DOMAIN b.values = 1..Len(b.index)
            /\ \A r \in 1..Len(b.index) :
                  /\ DOMAIN b.values[r] = 1..Len(b.columns)
                  /\ \A c \in 1..Len(b.columns) :
                        b.values[r][c] =
                            (IF QuantityTotal(df, b.index[r], b.columns[c]) > 0
                             THEN 1 ELSE 0)

\* two transactions of one item each: the two pairs without a record are 0,
\* the two with a record of quantity 1 are 1
C3_AbsentPairIsZero ==
    /\ pc = "data"
    /\ Len(df.rows) = 2
    /\ basket_encoded.index = <<T1, T2>>
    /\ basket_encoded.columns = <<Bread, Milk>>
    /\ basket_encoded.values \in {<<(<<1, 0>>), (<<0, 1>>)>>, <<(<<0, 1>>), (<<1, 0>>)>>}

\* the CSV rows with both a transaction id and a product name
ValidRows == SelectSeq(raw_rows, LAMBDA r : r[1] # NaN /\ r[2] # NaN)

\* C4: the rows missing a transaction id or a product name are dropped: they
\* are not in the cleaned records, add no row and no column to the basket
\* matrix, and the basket, the frequent itemsets with their supports and the
\* outcome of the load are those of the input without them.
C4_InvalidRowsDropped ==
    DataLoaded =>
        /\ df.rows = ValidRows
        /\ NaN \notin Range(basket_encoded.index)
        /\ NaN \notin Range(basket_encoded.columns)
        /\ basket_encoded = BasketOf(raw_columns, ValidRows)
        /\ MinerRan =>
              \A fi \in {Apriori(BasketOf(raw_columns, ValidRows), Literal(min_support))} :
                  /\ frequent_itemsets = fi
                  /\ (pc = "error") = (fi = {})

\* a file of one row without a transaction id and one complete row loads,
\* and its one transaction is the complete row's
C4_InvalidRowBesideValid ==
    /\ pc = "loaded"
    /\ Len(raw_rows) = 2
    /\ \E k \in 1..2 : raw_rows[k][1] = NaN /\ raw_rows[k][2] # NaN
    /\ Len(df.rows) = 1
    /\ Len(basket_encoded.index) = 1
    /\ Cardinality(frequent_itemsets) = 1

\* C5: the load on an empty record sequence, or on records of which no
\* itemset meets min_support, ends normally with no rules: it does not end
\* in the error-and-halt state.
C5_EmptyResultIsNotAnError ==
    (MinerRan /\ (raw_rows = <<>> \/ frequent_itemsets = {})) =>
        (pc # "error" /\ rules = {})

\* a header matched to the transaction id / the item name by the rule
HasTransactionId == \E i \in 1..Len(raw_columns) : Rename(raw_columns[i]) = Transaction_ID
HasItemName == \E i \in 1..Len(raw_columns) : Rename(raw_columns[i]) = Product_Name

\* C6: get_data fails on the schema exactly when no header matches the
\* transaction id or none matches the item name; then nothing is produced
\* and no page is rendered; any other input is accepted.
C6_SchemaErrorExactlyWhenKeyColumnMissing ==
    pc # "start" =>
        /\ (~DataLoaded) = ~(HasTransactionId /\ HasItemName)
        /\ ~DataLoaded => (pc = "error" /\ df = EmptyFrame /\ basket_encoded = EmptyBasket
                           /\ frequent_itemsets = {} /\ rules = {} /\ recs = {})

\* C7: the frequent set is downward closed and support is antimonotone:
\* every non-empty subset of a returned itemset is returned with a support at
\* least as large, and every support lies in [0, 1].
C7_DownwardClosedAntimonotone ==
    MinerRan =>
        \A f \in frequent_itemsets :
            /\ FGeq(f.support, Zero) /\ FGeq(One, f.support)
            /\ \A J \in (SUBSET f.itemsets) \ {{}} :
                  \E g \in frequent_itemsets :
                      g.itemsets = J /\ FGeq(g.support, f.support)

\* a frequent itemset of three items with a subset of strictly larger support
C7_ThreeItemsetWithLargerSubset ==
    /\ pc = "loaded"
    /\ \E f, g \in frequent_itemsets :
          /\ Cardinality(f.itemsets) = 3
          /\ g.itemsets \subseteq f.itemsets
          /\ FGt(g.support, f.support)

\* C8: the antecedent and the consequent of every rule are frequent itemsets
\* of support >= min_support > 0, the rule carries the miner's supports,
\* confidence = support / antecedent support lies in [0, 1] and
\* lift = confidence / consequent support, each the float64 quotient.
C8_RuleMetricsFromMinerSupports ==
    \A ms \in {Literal(min_support)} :
        /\ rules # {} => FGt(ms, Zero)
        /\ \A r \in rules :
              LET sA == r.antecedent_support
                  sC == r.consequent_support
                  sAC == r.support
              IN  /\ \E f \in frequent_itemsets :
                        f.itemsets = r.antecedents /\ f.support = sA
                  /\ \E f \in frequent_itemsets :
                        f.itemsets = r.consequents /\ f.support = sC
                  /\ \E f \in frequent_itemsets :
                        f.itemsets = r.antecedents \cup r.consequents /\ f.support = sAC
                  /\ FGeq(sA, ms) /\ FGt(sA, Zero)
                  /\ FGeq(sC, ms) /\ FGt(sC, Zero)
                  /\ r.confidence = FDiv(sAC, sA)
                  /\ FGeq(r.confidence, Zero) /\ FGeq(One, r.confidence)
                  /\ r.lift = FDiv(r.confidence, sC)

\* a rule of confidence below 1 whose antecedent and consequent differ in
\* support
C8_RuleWithUnequalSupports ==
    /\ pc = "loaded"
    /\ \E r \in rules :
          /\ r.antecedent_support # r.consequent_support
          /\ FGt(One, r.confidence)
          /\ FGt(r.lift, One)

\* C9: the lookup for the selected product returns the three rules of
\* highest lift among exactly the rules whose antecedent set has the product
\* as a member.
C9_LookupIsExactMembership ==
    pc = "page" =>
        recs \in HeadRows(TopN, {r \in rules : target \in r.antecedents})

\* the name each header of the files above is to get: the first rule, in the
\* order total+value, product+name, transaction+id, category, day+week,
\* that its trimmed lowercased text matches, else the header itself
ExpectedName(h) ==
    CASE h = H_transaction_id -> Transaction_ID
      [] h = Transaction_ID -> Transaction_ID
      [] h = H_TXN -> H_TXN
      [] h = H_TxnTotalValue -> Total_Basket_Value
      [] h = H_PRODUCT_NAME -> Product_Name
      [] h = Product_Name -> Product_Name
      [] h = H_Item -> H_Item
      [] h = H_ProductCategoryName -> Product_Name
      [] h = Quantity -> Quantity
      [] h = H_Qty -> H_Qty
      [] h = H_TotalValue -> Total_Basket_Value
      [] h = H_category -> Product_Category
      [] h = H_Weekday -> Day_of_Week
      [] h = H_Store -> H_Store

\* C10: every column is renamed by the first matching rule of the fixed
\* order, a column matching no rule keeps its name unchanged, and renaming
\* the renamed headers again changes nothing.
C10_RenameFirstMatchIdempotent ==
    /\ \A i \in 1..Len(raw_columns) :
          /\ Rename(raw_columns[i]) = ExpectedName(raw_columns[i])
          /\ Rename(Rename(raw_columns[i])) = Rename(raw_columns[i])
    /\ DataLoaded =>
          /\ df.columns = [i \in 1..Len(raw_columns) |-> ExpectedName(raw_columns[i])]
          /\ RenameColumns(df.columns) = df.columns

\* a file whose item column is "Product Category Name" (product+name wins
\* over category), with an untrimmed id header and an unmatched "Store "
C10_MixedHeadersRenamed ==
    /\ DataLoaded
    /\ raw_columns = <<H_transaction_id, H_ProductCategoryName, Quantity, H_Store>>
    /\ df.columns = <<Transaction_ID, Product_Name, Quantity, H_Store>>

=============================================================================
